---- MODULE Spec2Model ----
(***************************************************************************)
(* coolrouter: a request broker with oracle voting (programs/coolrouter),  *)
(* the consumer program it calls back (programs/llm_consumer) and the CPI  *)
(* helper the consumer uses to create requests (coolroutercpi).            *)
(*                                                                         *)
(* Every instruction is one atomic transaction: it either commits all of   *)
(* its writes or none of them.  The outcome of the last transaction is     *)
(* kept in result / invoked / emitted so that it can be observed.          *)
(***************************************************************************)
EXTENDS Integers, Sequences, FiniteSets, TLC

(***************************************************************************)
(* Program constants                                                       *)
(***************************************************************************)
MAX_CALLBACK_ACCOUNTS == 32
MAX_ORACLES == 32
MAX_REQUEST_ID_LEN == 60
MAX_RESPONSE_LEN == 2000

(***************************************************************************)
(* Bounds of the model                                                     *)
(***************************************************************************)
\* oracle identities 1..NumOracles may sign submit_vote
NumOracles == 3
\* the delivery counter saturates here
MaxDelivered == 2

(***************************************************************************)
(* Identities                                                              *)
(***************************************************************************)
\* request ids; the request account of an id is the PDA ["request", id]
AllIds == {1, 2}
\* the ids the instructions of Spec are issued for
SpecIds == {1}

Oracles == 1..NumOracles
\* a signer that never votes
Stranger == NumOracles + 1
Signers == {1, Stranger}

CoolRouterProgram == "coolrouter"
ConsumerProgram == "llm_consumer"
OtherProgram == "other_program"
Programs == {ConsumerProgram, OtherProgram}

\* the request PDA ["request", request_id] of the broker
RequestPDA(request_id) == <<"request", request_id>>

\* a request id one byte longer than the consumer takes; ids 1 and 2 are the
\* one-byte strings "1" and "2"
LongId == 3
RequestIdLen(request_id) ==
    IF request_id = LongId THEN MAX_REQUEST_ID_LEN + 1 ELSE 1

\* the one authority that uses the consumer program
Authority == "authority"
\* the consumer_state PDA ["consumer_state", authority, request_id]
ConsumerPDA(request_id) == <<"consumer_state", request_id>>
PlainAccount == <<"plain", 0>>
ConsumerAddrs == {ConsumerPDA(id) : id \in AllIds}

\* an account as passed in ctx.remaining_accounts
Acct(k, w) == [key |-> k, is_writable |-> w]

(***************************************************************************)
(* Option<T>                                                               *)
(***************************************************************************)
None == <<>>
Some(x) == <<x>>

(***************************************************************************)
(* Responses and their hash                                                *)
(***************************************************************************)
\* a response: what it says and how many bytes it has; every second content
\* is one byte over the consumer's limit
ResponseOf(c) ==
    [content |-> c,
     len |-> IF c % 2 = 0 THEN MAX_RESPONSE_LEN + 1 ELSE MAX_RESPONSE_LEN]
\* the response contents of the model; the last one is never voted for
Contents == {1, 2, 3}
VotedContents == {1, 2}
Responses == {ResponseOf(c) : c \in Contents}

\* solana_program::hash::hash, as a digest of the bytes: a number that
\* depends on the content and the length and is not the response itself
hash(response) == (31 * response.content + response.len) % 251

\* the 32-byte values the oracles report
VoteHashes == {hash(ResponseOf(c)) : c \in VotedContents}

\* hash(b"global:llm_callback")[..8]
discriminator == "global:llm_callback"

(***************************************************************************)
(* count_votes and the maximum search of submit_vote                       *)
(***************************************************************************)
\* the inner loop: bump the first entry whose hash is h
RECURSIVE BumpFirst(_, _, _)
BumpFirst(hash_counts, h, i) ==
    IF i > Len(hash_counts) THEN hash_counts
    ELSE IF hash_counts[i][1] = h
         THEN [hash_counts EXCEPT ![i] = <<h, hash_counts[i][2] + 1>>]
         ELSE BumpFirst(hash_counts, h, i + 1)

\* the outer loop body for one vote
CountOne(hash_counts, vote) ==
    IF \E i \in 1..Len(hash_counts) : hash_counts[i][1] = vote.response_hash
    THEN BumpFirst(hash_counts, vote.response_hash, 1)
    ELSE Append(hash_counts, <<vote.response_hash, 1>>)

RECURSIVE CountFrom(_, _, _)
CountFrom(votes, i, hash_counts) ==
    IF i > Len(votes) THEN hash_counts
    ELSE CountFrom(votes, i + 1, CountOne(hash_counts, votes[i]))

count_votes(votes) == CountFrom(votes, 1, <<>>)

\* a maximum search that keeps the first of equal elements
MaxStep_KeepsFirst(best, next) == IF next[2] > best[2] THEN next ELSE best

\* Iterator::max_by_key folds from the first element and replaces the
\* maximum so far by every later element that is not smaller
MaxStep(best, next) == IF next[2] >= best[2] THEN next ELSE best

RECURSIVE MaxFrom(_, _, _)
MaxFrom(s, i, best) ==
    IF i > Len(s) THEN best ELSE MaxFrom(s, i + 1, MaxStep(best, s[i]))

\* None for an empty list, else Some((hash, count))
max_by_key(s) == IF Len(s) = 0 THEN None ELSE Some(MaxFrom(s, 2, s[1]))

\* the percentage of submit_vote, in u64
vote_percentage(vote_count, total_votes) == (vote_count * 100) \div total_votes

\* the resolution test that leaves the percentage out
Resolves_CountOnly(vote_count, min_votes, percentage, approval_threshold) ==
    vote_count >= min_votes

\* the resolution test with the count compared strictly
Resolves_StrictCount(vote_count, min_votes, percentage, approval_threshold) ==
    vote_count > min_votes /\ percentage >= approval_threshold

\* the resolution test that leaves min_votes out
Resolves_PercentOnly(vote_count, min_votes, percentage, approval_threshold) ==
    percentage >= approval_threshold

\* the resolution test of submit_vote
Resolves(vote_count, min_votes, percentage, approval_threshold) ==
    vote_count >= min_votes /\ percentage >= approval_threshold

(***************************************************************************)
(* State                                                                   *)
(***************************************************************************)
VARIABLES
    requests,   \* request id -> the LLMRequest account at its PDA
    consumer,   \* address -> the ConsumerState account at it
    result,     \* the last transaction: instruction, request id, Ok or error
    invoked,    \* the callback Instruction the last transaction handed to invoke
    emitted,    \* the events the last transaction emitted
    delivered   \* request id -> callbacks that returned Ok, saturating

vars == <<requests, consumer, result, invoked, emitted, delivered>>

\* an account that was never initialised
NoRequest == [initialized |-> FALSE]
NoConsumerState == [initialized |-> FALSE]
NoIx == <<>>

\* the ConsumerState account request_llm_response leaves: it waits for the
\* response of request_id
NewConsumerState(request_id) ==
    [initialized |-> TRUE, request_id |-> request_id, response |-> None,
     has_response |-> FALSE, authority |-> Authority]

Init ==
    /\ requests = [id \in AllIds |-> NoRequest]
    /\ consumer = [a \in ConsumerAddrs |-> NoConsumerState]
    /\ result = [op |-> "none", id |-> 0, err |-> "Ok"]
    /\ invoked = NoIx
    /\ emitted = <<>>
    /\ delivered = [id \in AllIds |-> 0]

\* a transaction that returns an error: nothing it wrote is kept
Fail(op, id, err, ix) ==
    /\ result' = [op |-> op, id |-> id, err |-> err]
    /\ invoked' = ix
    /\ emitted' = <<>>
    /\ UNCHANGED <<requests, consumer, delivered>>

\* a transaction that returns Ok
Commit(op, id, reqs, cons, ix, events, deliv) ==
    /\ result' = [op |-> op, id |-> id, err |-> "Ok"]
    /\ requests' = reqs
    /\ consumer' = cons
    /\ invoked' = ix
    /\ emitted' = events
    /\ delivered' = deliv

(***************************************************************************)
(* coolrouter::create_request                                              *)
(* Strings and the message list are modelled by their lengths.             *)
(***************************************************************************)
\* create_request that only asks for a positive approval_threshold
CreateError_NoUpperThreshold(provider, model_id, messages, remaining_accounts, min_votes, approval_threshold) ==
    IF provider > 64 THEN "ProviderTooLong"
    ELSE IF model_id > 64 THEN "ModelIdTooLong"
    ELSE IF messages > 50 THEN "TooManyMessages"
    ELSE IF Len(remaining_accounts) > MAX_CALLBACK_ACCOUNTS THEN "TooManyAccounts"
    ELSE IF ~(min_votes > 0) THEN "InvalidMinVotes"
    ELSE IF ~(approval_threshold > 0) THEN "InvalidApprovalThreshold"
    ELSE "Ok"

\* the require! chain of create_request, in order
CreateError(provider, model_id, messages, remaining_accounts, min_votes, approval_threshold) ==
    IF provider > 64 THEN "ProviderTooLong"
    ELSE IF model_id > 64 THEN "ModelIdTooLong"
    ELSE IF messages > 50 THEN "TooManyMessages"
    ELSE IF Len(remaining_accounts) > MAX_CALLBACK_ACCOUNTS THEN "TooManyAccounts"
    ELSE IF ~(min_votes > 0) THEN "InvalidMinVotes"
    ELSE IF ~(approval_threshold > 0 /\ approval_threshold <= 100)
         THEN "InvalidApprovalThreshold"
    ELSE "Ok"

\* the account with every callback account recorded as writable
NewRequest_AllWritable(request_id, caller_program, provider, model_id, remaining_accounts, min_votes, approval_threshold) ==
    [initialized |-> TRUE,
     id |-> request_id,
     caller_program |-> caller_program,
     provider |-> provider,
     model_id |-> model_id,
     callback_accounts |->
        [i \in 1..Len(remaining_accounts) |-> remaining_accounts[i].key],
     callback_writable |-> [i \in 1..Len(remaining_accounts) |-> TRUE],
     status |-> "Pending",
     min_votes |-> min_votes,
     approval_threshold |-> approval_threshold,
     votes |-> <<>>,
     winning_hash |-> None,
     total_votes_cast |-> 0]

\* the account create_request writes
NewRequest(request_id, caller_program, provider, model_id, remaining_accounts, min_votes, approval_threshold) ==
    [initialized |-> TRUE,
     id |-> request_id,
     caller_program |-> caller_program,
     provider |-> provider,
     model_id |-> model_id,
     callback_accounts |->
        [i \in 1..Len(remaining_accounts) |-> remaining_accounts[i].key],
     callback_writable |->
        [i \in 1..Len(remaining_accounts) |-> remaining_accounts[i].is_writable],
     status |-> "Pending",
     min_votes |-> min_votes,
     approval_threshold |-> approval_threshold,
     votes |-> <<>>,
     winning_hash |-> None,
     total_votes_cast |-> 0]

RequestCreated(request_id, caller_program, provider, model_id, messages, min_votes, approval_threshold) ==
    [event |-> "RequestCreated", request_id |-> request_id,
     caller_program |-> caller_program, provider |-> provider,
     model_id |-> model_id, messages |-> messages,
     min_votes |-> min_votes, approval_threshold |-> approval_threshold]

\* create_request under init_if_needed: an existing account is written anew
CreateOutcome_Reinitialises(account, request_id, caller_program, provider, model_id, messages, remaining_accounts, min_votes, approval_threshold) ==
    LET err == CreateError(provider, model_id, messages, remaining_accounts,
                           min_votes, approval_threshold)
    IN  IF err # "Ok"
        THEN [err |-> err, request |-> account, events |-> <<>>]
        ELSE [err |-> "Ok",
              request |-> NewRequest(request_id, caller_program, provider,
                                     model_id, remaining_accounts, min_votes,
                                     approval_threshold),
              events |-> <<RequestCreated(request_id, caller_program, provider,
                                          model_id, messages, min_votes,
                                          approval_threshold)>>]

\* the instruction as a function of the request account it is given:
\* the error, the account it leaves and the event
CreateOutcome(account, request_id, caller_program, provider, model_id, messages, remaining_accounts, min_votes, approval_threshold) ==
    LET err == CreateError(provider, model_id, messages, remaining_accounts,
                           min_votes, approval_threshold)
    IN  IF account.initialized
        THEN [err |-> "AccountAlreadyInUse", request |-> account, events |-> <<>>]
        ELSE IF err # "Ok"
        THEN [err |-> err, request |-> account, events |-> <<>>]
        ELSE [err |-> "Ok",
              request |-> NewRequest(request_id, caller_program, provider,
                                     model_id, remaining_accounts, min_votes,
                                     approval_threshold),
              events |-> <<RequestCreated(request_id, caller_program, provider,
                                          model_id, messages, min_votes,
                                          approval_threshold)>>]

create_request(request_id, caller_program, provider, model_id, messages, remaining_accounts, min_votes, approval_threshold) ==
    LET out == CreateOutcome(requests[request_id], request_id, caller_program,
                             provider, model_id, messages, remaining_accounts,
                             min_votes, approval_threshold)
    IN  IF out.err # "Ok"
        THEN Fail("create_request", request_id, out.err, NoIx)
        ELSE Commit("create_request", request_id,
                    [requests EXCEPT ![request_id] = out.request],
                    consumer, NoIx, out.events, delivered)

(***************************************************************************)
(* coolrouter::submit_vote                                                 *)
(***************************************************************************)
OracleVote(oracle, response_hash) ==
    [oracle |-> oracle, response_hash |-> response_hash]

HasVoted(request, oracle_key) ==
    \E i \in 1..Len(request.votes) : request.votes[i].oracle = oracle_key

\* submit_vote without the status check
VoteError_NoStatusCheck(request, oracle_key) ==
    IF ~request.initialized THEN "AccountNotInitialized"
    ELSE IF ~(Len(request.votes) < MAX_ORACLES) THEN "TooManyVotes"
    ELSE IF HasVoted(request, oracle_key) THEN "OracleAlreadyVoted"
    ELSE "Ok"

\* submit_vote without the loop over the votes cast
VoteError_NoDuplicateCheck(request, oracle_key) ==
    IF ~request.initialized THEN "AccountNotInitialized"
    ELSE IF request.status # "Pending" THEN "VotingClosed"
    ELSE IF ~(Len(request.votes) < MAX_ORACLES) THEN "TooManyVotes"
    ELSE "Ok"

\* submit_vote that closes the list at half of MAX_ORACLES
VoteError_HalfCap(request, oracle_key) ==
    IF ~request.initialized THEN "AccountNotInitialized"
    ELSE IF request.status # "Pending" THEN "VotingClosed"
    ELSE IF ~(Len(request.votes) < MAX_ORACLES \div 2) THEN "TooManyVotes"
    ELSE IF HasVoted(request, oracle_key) THEN "OracleAlreadyVoted"
    ELSE "Ok"

\* submit_vote without the bound on the number of votes
VoteError_NoCapCheck(request, oracle_key) ==
    IF ~request.initialized THEN "AccountNotInitialized"
    ELSE IF request.status # "Pending" THEN "VotingClosed"
    ELSE IF HasVoted(request, oracle_key) THEN "OracleAlreadyVoted"
    ELSE "Ok"

\* submit_vote that looks for the oracle before it looks at the bound
VoteError_DuplicateFirst(request, oracle_key) ==
    IF ~request.initialized THEN "AccountNotInitialized"
    ELSE IF request.status # "Pending" THEN "VotingClosed"
    ELSE IF HasVoted(request, oracle_key) THEN "OracleAlreadyVoted"
    ELSE IF ~(Len(request.votes) < MAX_ORACLES) THEN "TooManyVotes"
    ELSE "Ok"

\* the require! chain of submit_vote, in order
VoteError(request, oracle_key) ==
    IF ~request.initialized THEN "AccountNotInitialized"
    ELSE IF request.status # "Pending" THEN "VotingClosed"
    ELSE IF ~(Len(request.votes) < MAX_ORACLES) THEN "TooManyVotes"
    ELSE IF HasVoted(request, oracle_key) THEN "OracleAlreadyVoted"
    ELSE "Ok"

\* a push at the head of the list
PushVote_Prepend(request, oracle_key, response_hash) ==
    [request EXCEPT
        !.votes = <<OracleVote(oracle_key, response_hash)>> \o @,
        !.total_votes_cast = @ + 1]

\* the push and the counter
PushVote(request, oracle_key, response_hash) ==
    [request EXCEPT
        !.votes = Append(@, OracleVote(oracle_key, response_hash)),
        !.total_votes_cast = @ + 1]

\* the first entry of count_votes in the place of the maximum
Leading_FirstSeen(votes) ==
    IF Len(votes) = 0 THEN None ELSE Some(count_votes(votes)[1])

\* the (hash, count) submit_vote takes as leading, as an Option
Leading(votes) == max_by_key(count_votes(votes))

\* whether the record, with the new vote in it, closes the voting
Decides(request) ==
    LET best == Leading(request.votes)
    IN  /\ best # None
        /\ Resolves(best[1][2], request.min_votes,
                    vote_percentage(best[1][2], request.total_votes_cast),
                    request.approval_threshold)

\* the record after the consensus check
Resolve(request) ==
    IF Decides(request)
    THEN [request EXCEPT
            !.winning_hash = Some(Leading(request.votes)[1][1]),
            !.status = "VotingCompleted"]
    ELSE request

VotingCompleted(request) ==
    [event |-> "VotingCompleted", request_id |-> request.id,
     winning_hash |-> request.winning_hash[1],
     vote_count |-> Leading(request.votes)[1][2],
     total_votes |-> request.total_votes_cast]

\* the instruction as a function of the request account it is given:
\* the error, the account it leaves and the events
VoteOutcome(request, oracle_key, response_hash) ==
    LET err == VoteError(request, oracle_key)
        after == Resolve(PushVote(request, oracle_key, response_hash))
    IN  IF err # "Ok"
        THEN [err |-> err, request |-> request, events |-> <<>>]
        ELSE [err |-> "Ok", request |-> after,
              events |-> IF after.status = "VotingCompleted"
                         THEN <<VotingCompleted(after)>> ELSE <<>>]

submit_vote(id, oracle_key, response_hash) ==
    LET out == VoteOutcome(requests[id], oracle_key, response_hash)
    IN  IF out.err # "Ok"
        THEN Fail("submit_vote", id, out.err, NoIx)
        ELSE Commit("submit_vote", id,
                    [requests EXCEPT ![id] = out.request],
                    consumer, NoIx, out.events, delivered)

(***************************************************************************)
(* llm_consumer::llm_callback and the cross-program invocation             *)
(***************************************************************************)
ResponseReceived(request_id) ==
    [event |-> "ResponseReceived", request_id |-> request_id]

\* the handler on the consumer_state account it is given:
\* the error, the account it leaves and the event
llm_callback(consumer_state, request_id, response) ==
    IF ~consumer_state.initialized
    THEN [err |-> "AccountNotInitialized", state |-> consumer_state, events |-> <<>>]
    ELSE IF consumer_state.request_id # request_id
    THEN [err |-> "RequestIdMismatch", state |-> consumer_state, events |-> <<>>]
    ELSE IF ~(response.len <= MAX_RESPONSE_LEN)
    THEN [err |-> "ResponseTooLarge", state |-> consumer_state, events |-> <<>>]
    ELSE [err |-> "Ok",
          state |-> [consumer_state EXCEPT !.response = Some(response),
                                           !.has_response = TRUE],
          events |-> <<ResponseReceived(request_id)>>]

\* invoke(&ix, accounts): the host runs the program ix names.  The consumer
\* program loads its first account as a ConsumerState, then asks that it is
\* writable, then runs llm_callback on it; any other program, and the host
\* itself, may accept the call or reject it (host_ok).  The error, the consumer accounts after and
\* the events of the callee.
invoke(ix, cons, host_ok) ==
    IF ~host_ok
    THEN [err |-> "InvokeFailed", consumer |-> cons, events |-> <<>>]
    ELSE IF ix.program_id # ConsumerProgram
    THEN [err |-> "Ok", consumer |-> cons, events |-> <<>>]
    ELSE IF Len(ix.accounts) = 0
    THEN [err |-> "AccountNotEnoughKeys", consumer |-> cons, events |-> <<>>]
    ELSE IF ix.accounts[1].pubkey \notin ConsumerAddrs
    THEN [err |-> "AccountNotInitialized", consumer |-> cons, events |-> <<>>]
    ELSE IF ~cons[ix.accounts[1].pubkey].initialized
    THEN [err |-> "AccountNotInitialized", consumer |-> cons, events |-> <<>>]
    ELSE IF ~ix.accounts[1].is_writable
    THEN [err |-> "ConstraintMut", consumer |-> cons, events |-> <<>>]
    ELSE LET a == ix.accounts[1].pubkey
             out == llm_callback(cons[a], ix.data.request_id, ix.data.response)
         IN  [err |-> out.err,
              consumer |-> [cons EXCEPT ![a] = out.state],
              events |-> out.events]

(***************************************************************************)
(* coolrouter::fulfill_request                                             *)
(***************************************************************************)
\* fulfill_request without the comparison of the response hash
FulfillError_NoHashCheck(request, response, callback_program, remaining_accounts) ==
    IF ~request.initialized THEN "AccountNotInitialized"
    ELSE IF request.status # "VotingCompleted" THEN "VotingNotCompleted"
    ELSE IF request.winning_hash = None THEN "NoWinningHash"
    ELSE IF callback_program # request.caller_program THEN "CallbackProgramMismatch"
    ELSE IF Len(remaining_accounts) # Len(request.callback_accounts)
         THEN "AccountCountMismatch"
    ELSE IF \E i \in 1..Len(request.callback_accounts) :
                remaining_accounts[i].key # request.callback_accounts[i]
         THEN "AccountMismatch"
    ELSE "Ok"

\* fulfill_request that also takes a Fulfilled record
FulfillError_FulfilledToo(request, response, callback_program, remaining_accounts) ==
    IF ~request.initialized THEN "AccountNotInitialized"
    ELSE IF request.status = "Pending" THEN "VotingNotCompleted"
    ELSE IF request.winning_hash = None THEN "NoWinningHash"
    ELSE IF hash(response) # request.winning_hash[1] THEN "ResponseHashMismatch"
    ELSE IF callback_program # request.caller_program THEN "CallbackProgramMismatch"
    ELSE IF Len(remaining_accounts) # Len(request.callback_accounts)
         THEN "AccountCountMismatch"
    ELSE IF \E i \in 1..Len(request.callback_accounts) :
                remaining_accounts[i].key # request.callback_accounts[i]
         THEN "AccountMismatch"
    ELSE "Ok"

\* fulfill_request that compares the number of accounts and not their keys
FulfillError_NoKeyLoop(request, response, callback_program, remaining_accounts) ==
    IF ~request.initialized THEN "AccountNotInitialized"
    ELSE IF request.status # "VotingCompleted" THEN "VotingNotCompleted"
    ELSE IF request.winning_hash = None THEN "NoWinningHash"
    ELSE IF hash(response) # request.winning_hash[1] THEN "ResponseHashMismatch"
    ELSE IF callback_program # request.caller_program THEN "CallbackProgramMismatch"
    ELSE IF Len(remaining_accounts) # Len(request.callback_accounts)
         THEN "AccountCountMismatch"
    ELSE "Ok"

\* the require! chain of fulfill_request, in order
FulfillError(request, response, callback_program, remaining_accounts) ==
    IF ~request.initialized THEN "AccountNotInitialized"
    ELSE IF request.status # "VotingCompleted" THEN "VotingNotCompleted"
    ELSE IF request.winning_hash = None THEN "NoWinningHash"
    ELSE IF hash(response) # request.winning_hash[1] THEN "ResponseHashMismatch"
    ELSE IF callback_program # request.caller_program THEN "CallbackProgramMismatch"
    ELSE IF Len(remaining_accounts) # Len(request.callback_accounts)
         THEN "AccountCountMismatch"
    ELSE IF \E i \in 1..Len(request.callback_accounts) :
                remaining_accounts[i].key # request.callback_accounts[i]
         THEN "AccountMismatch"
    ELSE "Ok"

AccountMeta(pubkey, is_signer, is_writable) ==
    [pubkey |-> pubkey, is_signer |-> is_signer, is_writable |-> is_writable]

\* the Instruction with every account writable, as the CPI helper builds its own
CallbackIx_AllWritable(request, response) ==
    [program_id |-> request.caller_program,
     accounts |-> [i \in 1..Len(request.callback_accounts) |->
                     AccountMeta(request.callback_accounts[i], FALSE, TRUE)],
     data |-> [discriminator |-> discriminator,
               request_id |-> request.id,
               response |-> response]]

\* the Instruction fulfill_request builds
CallbackIx(request, response) ==
    [program_id |-> request.caller_program,
     accounts |-> [i \in 1..Len(request.callback_accounts) |->
                     AccountMeta(request.callback_accounts[i], FALSE,
                                 request.callback_writable[i])],
     data |-> [discriminator |-> discriminator,
               request_id |-> request.id,
               response |-> response]]

RequestFulfilled(request, response) ==
    [event |-> "RequestFulfilled", request_id |-> request.id,
     response_length |-> response.len]

\* the write that also clears the hash the voting chose
MarkFulfilled_ClearsHash(request) ==
    [request EXCEPT !.status = "Fulfilled", !.winning_hash = None]

\* the write after a callback that returned Ok
MarkFulfilled(request) == [request EXCEPT !.status = "Fulfilled"]

BumpDelivered(id) ==
    [delivered EXCEPT ![id] = IF @ < MaxDelivered THEN @ + 1 ELSE @]

\* fulfill_request that drops the Result of invoke and goes on to the write
FulfillOutcome_IgnoresCallbackError(request, cons, oracle, callback_program, remaining_accounts, response, host_ok) ==
    LET err == FulfillError(request, response, callback_program, remaining_accounts)
        ix == CallbackIx(request, response)
        out == invoke(ix, cons, host_ok)
    IN  IF err # "Ok"
        THEN [err |-> err, request |-> request, consumer |-> cons,
              ix |-> NoIx, events |-> <<>>]
        ELSE [err |-> "Ok", request |-> MarkFulfilled(request),
              consumer |-> out.consumer, ix |-> ix,
              events |-> out.events \o <<RequestFulfilled(request, response)>>]

\* fulfill_request that takes the transaction of an oracle in votes only
FulfillOutcome_VotersOnly(request, cons, oracle, callback_program, remaining_accounts, response, host_ok) ==
    LET err == FulfillError(request, response, callback_program, remaining_accounts)
        ix == CallbackIx(request, response)
        out == invoke(ix, cons, host_ok)
    IN  IF err # "Ok"
        THEN [err |-> err, request |-> request, consumer |-> cons,
              ix |-> NoIx, events |-> <<>>]
        ELSE IF ~HasVoted(request, oracle)
        THEN [err |-> "Unauthorized", request |-> request, consumer |-> cons,
              ix |-> NoIx, events |-> <<>>]
        ELSE IF out.err # "Ok"
        THEN [err |-> out.err, request |-> request, consumer |-> cons,
              ix |-> ix, events |-> <<>>]
        ELSE [err |-> "Ok", request |-> MarkFulfilled(request),
              consumer |-> out.consumer, ix |-> ix,
              events |-> out.events \o <<RequestFulfilled(request, response)>>]

\* the instruction as a function of the accounts it is given: the error, the
\* request and consumer accounts it leaves, the Instruction it handed to
\* invoke (NoIx when it returned before) and the events.  oracle is the
\* signer of the transaction; the handler never reads it.
FulfillOutcome(request, cons, oracle, callback_program, remaining_accounts, response, host_ok) ==
    LET err == FulfillError(request, response, callback_program, remaining_accounts)
        ix == CallbackIx(request, response)
        out == invoke(ix, cons, host_ok)
    IN  IF err # "Ok"
        THEN [err |-> err, request |-> request, consumer |-> cons,
              ix |-> NoIx, events |-> <<>>]
        ELSE IF out.err # "Ok"
        THEN [err |-> out.err, request |-> request, consumer |-> cons,
              ix |-> ix, events |-> <<>>]
        ELSE [err |-> "Ok", request |-> MarkFulfilled(request),
              consumer |-> out.consumer, ix |-> ix,
              events |-> out.events \o <<RequestFulfilled(request, response)>>]

fulfill_request(id, oracle, callback_program, remaining_accounts, response, host_ok) ==
    LET out == FulfillOutcome(requests[id], consumer, oracle, callback_program,
                              remaining_accounts, response, host_ok)
    IN  IF out.err # "Ok"
        THEN Fail("fulfill_request", id, out.err, out.ix)
        ELSE Commit("fulfill_request", id,
                    [requests EXCEPT ![id] = out.request],
                    out.consumer, out.ix, out.events, BumpDelivered(id))

(***************************************************************************)
(* The inputs of the model                                                 *)
(***************************************************************************)
ProviderLens == {64, 65}
ModelIdLens == {64, 65}
MessageCounts == {50, 51}
MinVotesChoices == {0, 1, 2, 3}
ThresholdChoices == {0, 60, 100, 101}

\* one account more than MAX_CALLBACK_ACCOUNTS
TooManyCallbackAccounts ==
    [i \in 1..(MAX_CALLBACK_ACCOUNTS + 1) |-> Acct(PlainAccount, FALSE)]

\* the account lists a caller passes as remaining accounts
AccountLists ==
    { <<>>,
      <<Acct(ConsumerPDA(1), TRUE)>>,
      <<Acct(ConsumerPDA(1), FALSE)>>,
      <<Acct(ConsumerPDA(1), TRUE), Acct(PlainAccount, FALSE)>>,
      <<Acct(PlainAccount, FALSE), Acct(ConsumerPDA(1), TRUE)>> }

CreateAccountLists == AccountLists \cup {TooManyCallbackAccounts}

(***************************************************************************)
(* Spec: the broker program alone.  Its three instructions are issued for  *)
(* one request id, by three oracles.  The programs it calls back are not   *)
(* part of it: no consumer_state account exists, so the consumer program   *)
(* turns every callback away, and any other program accepts unless the     *)
(* invocation fails.                                                       *)
(***************************************************************************)
\* the argument tuples of create_request
CreateArgs ==
    [caller_program : Programs, provider : ProviderLens, model_id : ModelIdLens,
     messages : MessageCounts, remaining_accounts : CreateAccountLists,
     min_votes : MinVotesChoices, approval_threshold : ThresholdChoices]

\* init rejects an existing account before the handler reads any argument,
\* so there one argument tuple stands for them all
CreateArgsFor(account) ==
    IF account.initialized
    THEN {[caller_program |-> ConsumerProgram, provider |-> 64, model_id |-> 64,
           messages |-> 50, remaining_accounts |-> <<>>,
           min_votes |-> 1, approval_threshold |-> 100]}
    ELSE CreateArgs

CreateStep ==
    \E id \in SpecIds :
        \E a \in CreateArgsFor(requests[id]) :
            create_request(id, a.caller_program, a.provider, a.model_id,
                           a.messages, a.remaining_accounts, a.min_votes,
                           a.approval_threshold)

VoteStep ==
    \E id \in SpecIds, oracle \in Oracles, response_hash \in VoteHashes :
        submit_vote(id, oracle, response_hash)

\* the argument tuples of fulfill_request
FulfillArgs ==
    [oracle : Signers, callback_program : Programs,
     remaining_accounts : AccountLists, response : Responses, host_ok : BOOLEAN]

\* the arguments of a fulfilment that names what the record names
MatchingArgs(request) ==
    [oracle |-> Stranger,
     callback_program |-> request.caller_program,
     remaining_accounts |->
        [i \in 1..Len(request.callback_accounts) |->
            Acct(request.callback_accounts[i], request.callback_writable[i])],
     response |-> IF request.winning_hash # None
                     /\ \E r \in Responses : hash(r) = request.winning_hash[1]
                  THEN CHOOSE r \in Responses : hash(r) = request.winning_hash[1]
                  ELSE ResponseOf(1),
     host_ok |-> TRUE]

\* the status check comes before the handler reads any argument, so on a
\* record that is not VotingCompleted one argument tuple stands for them all
FulfillArgsFor(request) ==
    IF ~request.initialized THEN {[oracle |-> Stranger, callback_program |-> ConsumerProgram,
                                   remaining_accounts |-> <<>>, response |-> ResponseOf(1),
                                   host_ok |-> TRUE]}
    ELSE IF request.status # "VotingCompleted" THEN {MatchingArgs(request)}
    ELSE FulfillArgs

FulfillStep ==
    \E id \in SpecIds :
        \E a \in FulfillArgsFor(requests[id]) :
            fulfill_request(id, a.oracle, a.callback_program,
                            a.remaining_accounts, a.response, a.host_ok)

Next == CreateStep \/ VoteStep \/ FulfillStep

Spec == Init /\ [][Next]_vars

(***************************************************************************)
(* llm_consumer::llm_callback as an instruction of its own: the consumer   *)
(* program is public, LLMCallback asks for no signer and the handler does  *)
(* not look at who calls it, so any transaction may name it, on any        *)
(* consumer_state account, with any request_id and response.               *)
(***************************************************************************)
direct_llm_callback(address, request_id, response) ==
    LET out == llm_callback(consumer[address], request_id, response)
    IN  IF out.err # "Ok"
        THEN Fail("llm_callback", request_id, out.err, NoIx)
        ELSE Commit("llm_callback", request_id, requests,
                    [consumer EXCEPT ![address] = out.state],
                    NoIx, out.events, delivered)

(***************************************************************************)
(* llm_consumer::request_llm_response, through coolroutercpi               *)
(***************************************************************************)
\* the callback account list CoolRouterCPI::create_request attaches:
\* every callback account writable
CpiCallbackAccounts(callback_accounts) ==
    [i \in 1..Len(callback_accounts) |-> Acct(callback_accounts[i], TRUE)]

\* The call to create_llm_request names ten of its twelve parameters: the
\* last two, min_votes and approval_threshold (both u8), are not written in
\* the handler and are no input of the instruction.  Whatever a build passes
\* there is left open by the source, so the step chooses them; these are the
\* u8 values the model tries.
UnnamedMinVotes == {0, 1, 2}
UnnamedThresholds == {60, 100}

\* The instruction takes a request id and a prompt.  request_pda,
\* consumer_program and coolrouter_program are accounts the caller names and
\* the consumer does not check.  init creates the consumer_state at the PDA of
\* the id (an existing one is refused before the handler runs), the handler
\* tests the length of the id, fills the account and invokes
\* coolrouter_program with a create_request for "openai", "gpt-4", one
\* message and the consumer_state as callback account.  The broker asks that
\* request_pda is the PDA of the id and runs create_request; another program
\* does what it likes and is taken to accept; the host or the callee may also
\* fail the invocation (host_ok).  An error anywhere undoes the transaction.
request_llm_response(request_id, request_pda, consumer_program, coolrouter_program, host_ok) ==
    LET pda == ConsumerPDA(request_id)
    IN  IF pda \in ConsumerAddrs /\ consumer[pda].initialized
        THEN Fail("request_llm_response", request_id, "AccountAlreadyInUse", NoIx)
        ELSE IF ~(RequestIdLen(request_id) <= MAX_REQUEST_ID_LEN)
        THEN Fail("request_llm_response", request_id, "RequestIdTooLong", NoIx)
        ELSE IF ~host_ok
        THEN Fail("request_llm_response", request_id, "InvokeFailed", NoIx)
        ELSE IF coolrouter_program # CoolRouterProgram
        THEN Commit("request_llm_response", request_id, requests,
                    [consumer EXCEPT ![pda] = NewConsumerState(request_id)],
                    NoIx, <<>>, delivered)
        ELSE IF request_pda # RequestPDA(request_id)
        THEN Fail("request_llm_response", request_id, "ConstraintSeeds", NoIx)
        ELSE \E min_votes \in UnnamedMinVotes, approval_threshold \in UnnamedThresholds :
                LET out == CreateOutcome(requests[request_id], request_id,
                                         consumer_program, 6, 5, 1,
                                         CpiCallbackAccounts(<<pda>>),
                                         min_votes, approval_threshold)
                IN  IF out.err # "Ok"
                    THEN Fail("request_llm_response", request_id, out.err, NoIx)
                    ELSE Commit("request_llm_response", request_id,
                                [requests EXCEPT ![request_id] = out.request],
                                [consumer EXCEPT ![pda] = NewConsumerState(request_id)],
                                NoIx, out.events, delivered)

(***************************************************************************)
(* SpecSystem: the broker and the consumer together, with two request ids  *)
(* and one oracle.  Requests come from create_request at the broker and    *)
(* from request_llm_response at the consumer, and llm_callback is also     *)
(* sent as a transaction of its own.                                       *)
(***************************************************************************)
\* a request made directly at the broker, naming the consumer program and
\* the consumer_state of request 1 as its callback
SysCreateStep ==
    \E id \in AllIds :
        create_request(id, ConsumerProgram, 64, 64, 50,
                       <<Acct(ConsumerPDA(1), TRUE)>>, 1, 100)

\* the ids the consumer is asked for: 1, 2 and the one that is too long
ConsumerIds == AllIds \cup {LongId}
\* the accounts a caller names as request_pda and as coolrouter_program
RequestPDAs == {RequestPDA(id) : id \in AllIds}
RouterPrograms == {CoolRouterProgram, OtherProgram}

SysRequestStep ==
    \E request_id \in ConsumerIds, request_pda \in RequestPDAs :
        \E consumer_program \in Programs, coolrouter_program \in RouterPrograms :
            \E host_ok \in BOOLEAN :
                request_llm_response(request_id, request_pda, consumer_program,
                                     coolrouter_program, host_ok)

SysVoteStep ==
    \E id \in AllIds, response_hash \in VoteHashes : submit_vote(id, 1, response_hash)

\* fulfilments that name the recorded program and accounts
SysFulfillArgsFor(request) ==
    IF ~request.initialized THEN FulfillArgsFor(request)
    ELSE {[MatchingArgs(request) EXCEPT !.response = r, !.host_ok = h] :
            r \in Responses, h \in BOOLEAN}

SysFulfillStep ==
    \E id \in AllIds :
        \E a \in SysFulfillArgsFor(requests[id]) :
            fulfill_request(id, a.oracle, a.callback_program,
                            a.remaining_accounts, a.response, a.host_ok)

SysCallbackStep ==
    \E address \in ConsumerAddrs, request_id \in AllIds, response \in Responses :
        direct_llm_callback(address, request_id, response)

SysNext ==
    SysCreateStep \/ SysRequestStep \/ SysVoteStep \/ SysFulfillStep \/ SysCallbackStep

SpecSystem == Init /\ [][SysNext]_vars

(***************************************************************************)
(* SpecCap: one request and MAX_ORACLES + 1 oracle identities, so that the *)
(* votes of a request reach MAX_ORACLES.  The oracles come in the order of *)
(* their numbers, oracle 1 also comes again, and only the first two choose *)
(* between the hashes.                                                     *)
(***************************************************************************)
CapOracles == 1..(MAX_ORACLES + 1)

\* min_votes above the cap keeps the request Pending whatever the votes are
CapMinVotes == {MAX_ORACLES \div 2, MAX_ORACLES + 1}
CapThresholds == {60, 100}

CapCreateStep ==
    \E min_votes \in CapMinVotes, approval_threshold \in CapThresholds :
        create_request(1, OtherProgram, 64, 64, 50, <<>>, min_votes, approval_threshold)

\* the next oracle that has not voted, and oracle 1
CapVotersFor(request) ==
    IF ~request.initialized THEN {1}
    ELSE {1, IF Len(request.votes) < MAX_ORACLES
             THEN Len(request.votes) + 1 ELSE MAX_ORACLES + 1}

CapHashesFor(oracle_key) ==
    IF oracle_key <= 2 THEN VoteHashes ELSE {hash(ResponseOf(1))}

CapVoteStep ==
    \E oracle_key \in CapVotersFor(requests[1]) :
        \E response_hash \in CapHashesFor(oracle_key) :
            submit_vote(1, oracle_key, response_hash)

CapFulfillStep ==
    \E a \in FulfillArgsFor(requests[1]) :
        /\ a.oracle = Stranger /\ a.host_ok
        /\ fulfill_request(1, a.oracle, a.callback_program,
                           a.remaining_accounts, a.response, a.host_ok)

CapNext == CapCreateStep \/ CapVoteStep \/ CapFulfillStep

SpecCap == Init /\ [][CapNext]_vars

(***************************************************************************)
(* SpecTies: one request, one oracle more than Spec has and three hashes,  *)
(* with thresholds low enough for a tie of two hashes to pass the          *)
(* percentage test and the threshold of unanimity.  The oracles come in    *)
(* the order of their numbers.                                             *)
(***************************************************************************)
TieOracles == 1..(NumOracles + 1)
TieHashes == {hash(r) : r \in Responses}
TieMinVotes == {1, 2, 3}
TieThresholds == {1, 50, 67, 100}

TieCreateStep ==
    \E min_votes \in TieMinVotes, approval_threshold \in TieThresholds :
        create_request(1, OtherProgram, 64, 64, 50, <<>>, min_votes, approval_threshold)

\* the next oracle that has not voted, and oracle 1
TieVotersFor(request) ==
    IF ~request.initialized THEN {1}
    ELSE {1, IF Len(request.votes) < NumOracles + 1
             THEN Len(request.votes) + 1 ELSE NumOracles + 1}

TieVoteStep ==
    \E oracle_key \in TieVotersFor(requests[1]), response_hash \in TieHashes :
        submit_vote(1, oracle_key, response_hash)

TieNext == TieCreateStep \/ TieVoteStep

SpecTies == Init /\ [][TieNext]_vars

(***************************************************************************)
(* What the claims speak of, stated without the code's loops               *)
(***************************************************************************)
Live(id) == requests[id].initialized

\* the number of votes of a list that report hash h
Tally(votes, h) == Cardinality({i \in 1..Len(votes) : votes[i].response_hash = h})

HashesOf(votes) == {votes[i].response_hash : i \in 1..Len(votes)}

\* the largest tally of a non-empty vote list
LeadingCount(votes) ==
    CHOOSE n \in 1..Len(votes) :
        /\ \E h \in HashesOf(votes) : Tally(votes, h) = n
        /\ \A h \in HashesOf(votes) : Tally(votes, h) <= n

\* the resolution condition of a record that holds at least one vote
Consensus(request) ==
    /\ LeadingCount(request.votes) >= request.min_votes
    /\ (LeadingCount(request.votes) * 100) \div request.total_votes_cast
            >= request.approval_threshold

\* the last transaction was this instruction on this request
Did(op, id) == result.op = op /\ result.id = id

(***************************************************************************)
(* C1: the votes of a request never hold two entries of one oracle, and a  *)
(* submit_vote signed by an oracle that is already in votes fails, for     *)
(* every hash, and leaves the record as it was; every vote that is         *)
(* accepted appends one entry of an oracle that was not in votes.          *)
(***************************************************************************)
DistinctOracles(votes) ==
    \A i, j \in 1..Len(votes) : votes[i].oracle = votes[j].oracle => i = j

C1_NoDoubleVote ==
    /\ [](\A id \in AllIds :
            Live(id) =>
                /\ DistinctOracles(requests[id].votes)
                /\ \A o \in Oracles, h \in VoteHashes :
                      HasVoted(requests[id], o) =>
                          LET out == VoteOutcome(requests[id], o, h)
                          IN  out.err # "Ok" /\ out.request = requests[id])
    /\ [][\A id \in AllIds :
            (result'.op = "submit_vote" /\ result'.id = id) =>
                IF result'.err = "Ok"
                THEN /\ Len(requests'[id].votes) = Len(requests[id].votes) + 1
                     /\ ~HasVoted(requests[id],
                                  requests'[id].votes[Len(requests'[id].votes)].oracle)
                ELSE requests'[id] = requests[id]]_vars

\* a second vote of an oracle was rejected and the first one is still there
C1_Witness ==
    /\ Did("submit_vote", 1)
    /\ result.err = "OracleAlreadyVoted"
    /\ Len(requests[1].votes) >= 1

(***************************************************************************)
(* C2: an accepted submit_vote moves the request from Pending to           *)
(* VotingCompleted if and only if, with the new vote counted, the largest  *)
(* tally is at least min_votes and floor(tally * 100 / total_votes_cast)   *)
(* is at least approval_threshold.  So no Pending record that holds a vote *)
(* satisfies the condition, and with min_votes = 2, approval_threshold =   *)
(* 60 two agreeing votes resolve to their hash at the second vote, before  *)
(* any third one.                                                          *)
(***************************************************************************)
C2_ResolvesAtFirstVote ==
    /\ [](\A id \in AllIds :
            Live(id) =>
                /\ (requests[id].status = "Pending" /\ Len(requests[id].votes) >= 1)
                        => ~Consensus(requests[id])
                /\ (/\ requests[id].min_votes = 2
                    /\ requests[id].approval_threshold = 60
                    /\ Len(requests[id].votes) >= 2
                    /\ requests[id].votes[1].response_hash
                            = requests[id].votes[2].response_hash)
                        => /\ requests[id].status # "Pending"
                           /\ requests[id].winning_hash
                                = Some(requests[id].votes[1].response_hash)
                           /\ Len(requests[id].votes) = 2)
    /\ [][\A id \in AllIds :
            (result'.op = "submit_vote" /\ result'.id = id /\ result'.err = "Ok") =>
                /\ requests[id].status = "Pending"
                /\ requests'[id].status \in {"Pending", "VotingCompleted"}
                /\ requests'[id].status = "VotingCompleted"
                        <=> Consensus(requests'[id])]_vars

\* (o1, H_A), (o2, H_A) with min_votes = 2, approval_threshold = 60: the
\* second vote has just closed the voting
C2_Witness ==
    /\ Did("submit_vote", 1) /\ result.err = "Ok"
    /\ requests[1].min_votes = 2 /\ requests[1].approval_threshold = 60
    /\ Len(requests[1].votes) = 2
    /\ requests[1].votes[1].response_hash = requests[1].votes[2].response_hash
    /\ requests[1].status = "VotingCompleted"
    /\ requests[1].winning_hash = Some(requests[1].votes[1].response_hash)

(***************************************************************************)
(* C3: in every step the status of a request stays or moves one place      *)
(* along Pending -> VotingCompleted -> Fulfilled (a new record starts      *)
(* Pending), and no step changes a Fulfilled record.                       *)
(***************************************************************************)
C3_StatusForward ==
    [][\A id \in AllIds :
        /\ Live(id) => requests'[id].initialized
        /\ (~Live(id) /\ requests'[id].initialized)
                => requests'[id].status = "Pending"
        /\ Live(id) =>
            \/ requests'[id].status = requests[id].status
            \/ /\ requests[id].status = "Pending"
               /\ requests'[id].status = "VotingCompleted"
            \/ /\ requests[id].status = "VotingCompleted"
               /\ requests'[id].status = "Fulfilled"
        /\ (Live(id) /\ requests[id].status = "Fulfilled")
                => requests'[id] = requests[id]]_vars

\* a vote was tried on a record that went all the way to Fulfilled
C3_Witness ==
    /\ Live(1) /\ requests[1].status = "Fulfilled"
    /\ Did("submit_vote", 1) /\ result.err = "VotingClosed"
    /\ delivered[1] = 1

(***************************************************************************)
(* C4: winning_hash is None exactly while status = Pending (so it is set   *)
(* in the step that moves status to VotingCompleted), and once it is set   *)
(* no step changes it.                                                     *)
(***************************************************************************)
C4_WinningHashFixed ==
    /\ [](\A id \in AllIds :
            Live(id) =>
                (requests[id].winning_hash = None <=> requests[id].status = "Pending"))
    /\ [][\A id \in AllIds :
            (Live(id) /\ requests[id].winning_hash # None)
                => requests'[id].winning_hash = requests[id].winning_hash]_vars

\* the hash survived a fulfilment and a rejected vote after it
C4_Witness ==
    /\ Live(1) /\ requests[1].status = "Fulfilled"
    /\ requests[1].winning_hash # None
    /\ Did("submit_vote", 1) /\ result.err # "Ok"

(***************************************************************************)
(* C5: on a VotingCompleted request, fulfill_request with a response whose *)
(* hash is not winning_hash returns ResponseHashMismatch whatever its      *)
(* other arguments are, hands nothing to invoke and leaves the request,    *)
(* the consumer accounts and the status as they were.                      *)
(***************************************************************************)
\* the outcome of fulfill_request in the current state, for one argument tuple
FulfilOut(id, a) ==
    FulfillOutcome(requests[id], consumer, a.oracle, a.callback_program,
                   a.remaining_accounts, a.response, a.host_ok)

\* an outcome that wrote nothing and called nothing
Untouched(id, out) ==
    /\ out.ix = NoIx
    /\ out.request = requests[id]
    /\ out.consumer = consumer
    /\ out.events = <<>>

C5_HashMismatchFails ==
    /\ [](\A id \in AllIds :
            (Live(id) /\ requests[id].status = "VotingCompleted") =>
                \A a \in FulfillArgs :
                    Some(hash(a.response)) # requests[id].winning_hash =>
                        /\ FulfilOut(id, a).err = "ResponseHashMismatch"
                        /\ Untouched(id, FulfilOut(id, a)))
    /\ [][(result'.op = "fulfill_request" /\ result'.err = "ResponseHashMismatch") =>
            /\ requests' = requests
            /\ requests[result'.id].status = "VotingCompleted"
            /\ consumer' = consumer
            /\ delivered' = delivered
            /\ invoked' = NoIx
            /\ emitted' = <<>>]_vars

\* a fulfilment with another response was turned away
C5_Witness ==
    /\ Did("fulfill_request", 1) /\ result.err = "ResponseHashMismatch"
    /\ requests[1].status = "VotingCompleted"
    /\ invoked = NoIx

(***************************************************************************)
(* C6: fulfill_request returns Ok at most once per request: it returns Ok  *)
(* only on a VotingCompleted record that no callback was delivered for,    *)
(* and on a Fulfilled record every fulfill_request returns                 *)
(* VotingNotCompleted and hands nothing to invoke.                         *)
(***************************************************************************)
C6_FulfilOnce ==
    /\ [](\A id \in AllIds :
            /\ delivered[id] <= 1
            /\ delivered[id] = 1 <=> (Live(id) /\ requests[id].status = "Fulfilled")
            /\ (Live(id) /\ requests[id].status = "Fulfilled") =>
                    \A a \in FulfillArgs :
                        /\ FulfilOut(id, a).err = "VotingNotCompleted"
                        /\ Untouched(id, FulfilOut(id, a)))
    /\ [][\A id \in AllIds :
            (result'.op = "fulfill_request" /\ result'.id = id /\ result'.err = "Ok") =>
                /\ requests[id].status = "VotingCompleted"
                /\ delivered[id] = 0
                /\ delivered'[id] = 1]_vars

\* a second fulfilment after the one that went through
C6_Witness ==
    /\ Live(1) /\ requests[1].status = "Fulfilled"
    /\ delivered[1] = 1
    /\ Did("fulfill_request", 1) /\ result.err = "VotingNotCompleted"
    /\ invoked = NoIx

(***************************************************************************)
(* C7, as first stated: fulfill_request with an account list that differs  *)
(* from the recorded callback accounts in length, in a key or in order     *)
(* returns AccountCountMismatch or AccountMismatch, hands nothing to       *)
(* invoke and leaves everything as it was.                                 *)
(***************************************************************************)
KeysOf(accounts) == [i \in 1..Len(accounts) |-> accounts[i].key]

C7_AlwaysAccountMismatchKind ==
    \A id \in AllIds :
        Live(id) =>
            \A a \in FulfillArgs :
                KeysOf(a.remaining_accounts) # requests[id].callback_accounts =>
                    /\ FulfilOut(id, a).err
                            \in {"AccountCountMismatch", "AccountMismatch"}
                    /\ Untouched(id, FulfilOut(id, a))

(***************************************************************************)
(* C7, as amended: such a fulfill_request always fails, hands nothing to   *)
(* invoke and leaves everything as it was.  The error is                   *)
(* AccountCountMismatch for another length and AccountMismatch for the     *)
(* same length when the request is VotingCompleted, the response hashes to *)
(* winning_hash and the callback program is the recorded one; otherwise it *)
(* is the error of the first of these three that does not hold.            *)
(***************************************************************************)
\* what the claims expect of the checks that stand before the account list
BeforeAccountList(request, a) ==
    IF request.status # "VotingCompleted" THEN "VotingNotCompleted"
    ELSE IF Some(hash(a.response)) # request.winning_hash THEN "ResponseHashMismatch"
    ELSE IF a.callback_program # request.caller_program THEN "CallbackProgramMismatch"
    ELSE "Ok"

C7_AccountListMustMatch ==
    /\ [](\A id \in AllIds :
            Live(id) =>
                \A a \in FulfillArgs :
                    KeysOf(a.remaining_accounts) # requests[id].callback_accounts =>
                        /\ Untouched(id, FulfilOut(id, a))
                        /\ FulfilOut(id, a).err =
                                IF BeforeAccountList(requests[id], a) # "Ok"
                                THEN BeforeAccountList(requests[id], a)
                                ELSE IF Len(a.remaining_accounts)
                                            # Len(requests[id].callback_accounts)
                                THEN "AccountCountMismatch"
                                ELSE "AccountMismatch")
    /\ [][(/\ result'.op = "fulfill_request"
           /\ result'.err \in {"AccountCountMismatch", "AccountMismatch"}) =>
            /\ requests' = requests
            /\ consumer' = consumer
            /\ delivered' = delivered
            /\ invoked' = NoIx]_vars

\* the two recorded accounts came in the other order
C7_Witness ==
    /\ Did("fulfill_request", 1) /\ result.err = "AccountMismatch"
    /\ Len(requests[1].callback_accounts) = 2
    /\ requests[1].status = "VotingCompleted"
    /\ invoked = NoIx

(***************************************************************************)
(* C8, as first stated: every Instruction fulfill_request hands to invoke  *)
(* names the caller_program recorded in the request, carries the           *)
(* llm_callback tag, the request's own id and a response whose hash is     *)
(* winning_hash, and lists exactly the recorded callback accounts, in      *)
(* order, not signers, with the recorded writable flags; and a             *)
(* fulfill_request that names another callback program returns             *)
(* CallbackProgramMismatch and invokes nothing.                            *)
(***************************************************************************)
\* the Instruction of the last transaction, if any, is the one the record of
\* its request describes
InvokedAsRecorded(id) ==
    (invoked # NoIx /\ result.id = id) =>
        /\ result.op = "fulfill_request"
        /\ Live(id)
        /\ invoked.program_id = requests[id].caller_program
        /\ invoked.data.discriminator = discriminator
        /\ invoked.data.request_id = id
        /\ requests[id].id = id
        /\ Some(hash(invoked.data.response)) = requests[id].winning_hash
        /\ Len(invoked.accounts) = Len(requests[id].callback_accounts)
        /\ \A i \in 1..Len(invoked.accounts) :
              /\ invoked.accounts[i].pubkey = requests[id].callback_accounts[i]
              /\ invoked.accounts[i].is_writable = requests[id].callback_writable[i]
              /\ ~invoked.accounts[i].is_signer

C8_AlwaysProgramMismatchKind ==
    \A id \in AllIds :
        /\ InvokedAsRecorded(id)
        /\ Live(id) =>
            \A a \in FulfillArgs :
                a.callback_program # requests[id].caller_program =>
                    /\ FulfilOut(id, a).err = "CallbackProgramMismatch"
                    /\ Untouched(id, FulfilOut(id, a))

(***************************************************************************)
(* C8, as amended: the Instruction is as stated; a fulfill_request that    *)
(* names another callback program always fails and invokes nothing, with   *)
(* CallbackProgramMismatch when the request is VotingCompleted and the     *)
(* response hashes to winning_hash, with VotingNotCompleted when the       *)
(* request is not VotingCompleted and with ResponseHashMismatch when it is *)
(* and the response has another hash.                                      *)
(***************************************************************************)
C8_CallbackAsRecorded ==
    \A id \in AllIds :
        /\ InvokedAsRecorded(id)
        /\ Live(id) =>
            \A a \in FulfillArgs :
                a.callback_program # requests[id].caller_program =>
                    /\ Untouched(id, FulfilOut(id, a))
                    /\ FulfilOut(id, a).err =
                            IF requests[id].status # "VotingCompleted"
                            THEN "VotingNotCompleted"
                            ELSE IF Some(hash(a.response)) # requests[id].winning_hash
                            THEN "ResponseHashMismatch"
                            ELSE "CallbackProgramMismatch"

\* a callback went out with a writable and a read-only account
C8_Witness ==
    /\ Did("fulfill_request", 1) /\ result.err = "Ok"
    /\ invoked # NoIx
    /\ Len(invoked.accounts) = 2
    /\ invoked.accounts[1].is_writable # invoked.accounts[2].is_writable

\* a fulfilment that named another program was turned away for that
C8_WitnessMismatch ==
    /\ Did("fulfill_request", 1) /\ result.err = "CallbackProgramMismatch"
    /\ requests[1].status = "VotingCompleted"
    /\ invoked = NoIx

(***************************************************************************)
(* C9: with approval_threshold = 100 a request leaves Pending only at a    *)
(* vote after which all votes carry one hash: a record whose votes hold    *)
(* two hashes is Pending and every vote accepted on it leaves it Pending   *)
(* (so min_votes = 3 with votes A, A, B stays Pending).                    *)
(***************************************************************************)
C9_UnanimityAtHundred ==
    /\ [](\A id \in AllIds :
            (Live(id) /\ requests[id].approval_threshold = 100) =>
                /\ requests[id].status # "Pending"
                        => Cardinality(HashesOf(requests[id].votes)) = 1
                /\ Cardinality(HashesOf(requests[id].votes)) >= 2
                        => /\ requests[id].status = "Pending"
                           /\ \A o \in TieOracles, h \in TieHashes :
                                VoteOutcome(requests[id], o, h).request.status
                                    = "Pending")
    /\ [][\A id \in AllIds :
            (/\ Live(id) /\ requests[id].approval_threshold = 100
             /\ requests[id].status = "Pending"
             /\ requests'[id].status # "Pending")
                => /\ result'.op = "submit_vote"
                   /\ \A i \in 1..Len(requests'[id].votes) :
                        requests'[id].votes[i].response_hash
                            = requests'[id].votes[1].response_hash]_vars

\* min_votes = 3, approval_threshold = 100: two agreeing votes, then a third
\* that disagrees, then a fourth that agrees with the first two and so gives
\* their hash three votes: it was accepted and the request is Pending
C9_Witness ==
    /\ Did("submit_vote", 1) /\ result.err = "Ok"
    /\ requests[1].min_votes = 3 /\ requests[1].approval_threshold = 100
    /\ Len(requests[1].votes) = 4
    /\ requests[1].votes[1].response_hash = requests[1].votes[2].response_hash
    /\ requests[1].votes[3].response_hash # requests[1].votes[1].response_hash
    /\ requests[1].votes[4].response_hash = requests[1].votes[1].response_hash
    /\ requests[1].status = "Pending"

(***************************************************************************)
(* C10: count_votes returns the distinct hashes of votes in the order in   *)
(* which they were first reported, each with its exact number of votes.    *)
(* As first stated: when several hashes share the largest count, the       *)
(* leading hash submit_vote takes is the one reported earliest.            *)
(* As amended: it is the one among them whose first report is the latest.  *)
(***************************************************************************)
\* the place of the first vote that reports h
FirstIndex(votes, h) ==
    CHOOSE i \in 1..Len(votes) :
        /\ votes[i].response_hash = h
        /\ \A j \in 1..(i - 1) : votes[j].response_hash # h

\* the hashes that hold the largest tally
TiedLeaders(votes) ==
    {h \in HashesOf(votes) : Tally(votes, h) = LeadingCount(votes)}

EarliestLeader(votes) ==
    CHOOSE h \in TiedLeaders(votes) :
        \A g \in TiedLeaders(votes) : FirstIndex(votes, h) <= FirstIndex(votes, g)

LatestLeader(votes) ==
    CHOOSE h \in TiedLeaders(votes) :
        \A g \in TiedLeaders(votes) : FirstIndex(votes, h) >= FirstIndex(votes, g)

\* count_votes(votes) lists each hash once, in first-seen order, with its tally
CountsInFirstSeenOrder(votes) ==
    LET hash_counts == count_votes(votes)
    IN  /\ Len(hash_counts) = Cardinality(HashesOf(votes))
        /\ \A i \in 1..Len(hash_counts) :
              /\ hash_counts[i][1] \in HashesOf(votes)
              /\ hash_counts[i][2] = Tally(votes, hash_counts[i][1])
        /\ \A i, j \in 1..Len(hash_counts) :
              i < j => FirstIndex(votes, hash_counts[i][1])
                        < FirstIndex(votes, hash_counts[j][1])

\* the votes a submit_vote left in the record are the ones it counted
C10_EarliestLeaderWinsTies ==
    \A id \in AllIds :
        (Live(id) /\ Len(requests[id].votes) >= 1) =>
            /\ CountsInFirstSeenOrder(requests[id].votes)
            /\ Leading(requests[id].votes)
                = Some(<<EarliestLeader(requests[id].votes),
                         LeadingCount(requests[id].votes)>>)

C10_LatestLeaderWinsTies ==
    \A id \in AllIds :
        (Live(id) /\ Len(requests[id].votes) >= 1) =>
            /\ CountsInFirstSeenOrder(requests[id].votes)
            /\ Leading(requests[id].votes)
                = Some(<<LatestLeader(requests[id].votes),
                         LeadingCount(requests[id].votes)>>)

\* a vote was accepted that left two hashes with two votes each, and the
\* leading hash is not the one of them that was reported first
C10_Witness ==
    /\ Did("submit_vote", 1) /\ result.err = "Ok"
    /\ Len(requests[1].votes) = 4
    /\ LeadingCount(requests[1].votes) = 2
    /\ Cardinality(TiedLeaders(requests[1].votes)) = 2
    /\ Leading(requests[1].votes)[1][1] = LatestLeader(requests[1].votes)
    /\ Leading(requests[1].votes)[1][1] # EarliestLeader(requests[1].votes)

\* three hashes with one vote each: the leading hash is the third
C10_WitnessThree ==
    /\ Did("submit_vote", 1) /\ result.err = "Ok"
    /\ Len(requests[1].votes) = 3
    /\ Cardinality(TiedLeaders(requests[1].votes)) = 3
    /\ Leading(requests[1].votes)[1][1] = requests[1].votes[3].response_hash

(***************************************************************************)
(* C11: every create_request that returns Ok leaves a record with status   *)
(* Pending, no votes, total_votes_cast = 0, winning_hash = None, the       *)
(* min_votes and approval_threshold it was given, caller_program the       *)
(* program account it was given, and the keys and writable flags of the    *)
(* remaining accounts it was given, in their order.                        *)
(***************************************************************************)
\* the outcome of create_request in the current state, for one argument tuple
CreateOut(id, a) ==
    CreateOutcome(requests[id], id, a.caller_program, a.provider, a.model_id,
                  a.messages, a.remaining_accounts, a.min_votes,
                  a.approval_threshold)

\* a record as it is right after its creation
Fresh(request) ==
    /\ request.initialized
    /\ request.status = "Pending"
    /\ request.votes = <<>>
    /\ request.total_votes_cast = 0
    /\ request.winning_hash = None

C11_CreatedRecord ==
    /\ [](\A id \in SpecIds :
            ~Live(id) =>
                \A a \in CreateArgs :
                    CreateOut(id, a).err = "Ok" =>
                        LET r == CreateOut(id, a).request
                        IN  /\ Fresh(r)
                            /\ r.id = id
                            /\ r.min_votes = a.min_votes
                            /\ r.approval_threshold = a.approval_threshold
                            /\ r.caller_program = a.caller_program
                            /\ Len(r.callback_accounts) = Len(a.remaining_accounts)
                            /\ Len(r.callback_writable) = Len(a.remaining_accounts)
                            /\ \A i \in 1..Len(a.remaining_accounts) :
                                  /\ r.callback_accounts[i] = a.remaining_accounts[i].key
                                  /\ r.callback_writable[i]
                                        = a.remaining_accounts[i].is_writable)
    /\ [][\A id \in AllIds :
            (result'.op = "create_request" /\ result'.id = id /\ result'.err = "Ok") =>
                /\ ~Live(id)
                /\ Fresh(requests'[id])
                /\ Len(emitted') = 1
                /\ emitted'[1].event = "RequestCreated"
                /\ requests'[id].min_votes = emitted'[1].min_votes
                /\ requests'[id].approval_threshold = emitted'[1].approval_threshold
                /\ requests'[id].caller_program = emitted'[1].caller_program
                /\ requests'[id].id = emitted'[1].request_id]_vars

\* a request was just created with a writable and a read-only callback account
C11_Witness ==
    /\ Did("create_request", 1) /\ result.err = "Ok"
    /\ Fresh(requests[1])
    /\ Len(requests[1].callback_accounts) = 2
    /\ requests[1].callback_writable[1] # requests[1].callback_writable[2]
    /\ requests[1].min_votes = 3 /\ requests[1].approval_threshold = 60

(***************************************************************************)
(* C12: on an account that does not exist yet, create_request returns Ok   *)
(* exactly when provider and model_id are at most 64 long, there are at    *)
(* most 50 messages and at most 32 remaining accounts, min_votes > 0 and   *)
(* approval_threshold is in 1..100; otherwise it returns the error kind of *)
(* a bound the input violates (the six kinds differ) and creates nothing.  *)
(***************************************************************************)
\* the error kinds of the bounds an argument tuple violates
Violations(a) ==
    {k \in {"ProviderTooLong", "ModelIdTooLong", "TooManyMessages",
            "TooManyAccounts", "InvalidMinVotes", "InvalidApprovalThreshold"} :
        \/ k = "ProviderTooLong" /\ a.provider > 64
        \/ k = "ModelIdTooLong" /\ a.model_id > 64
        \/ k = "TooManyMessages" /\ a.messages > 50
        \/ k = "TooManyAccounts" /\ Len(a.remaining_accounts) > 32
        \/ k = "InvalidMinVotes" /\ a.min_votes = 0
        \/ k = "InvalidApprovalThreshold"
            /\ (a.approval_threshold < 1 \/ a.approval_threshold > 100)}

C12_CreateValidation ==
    /\ [](\A id \in SpecIds :
            ~Live(id) =>
                \A a \in CreateArgs :
                    /\ CreateOut(id, a).err = "Ok" <=> Violations(a) = {}
                    /\ CreateOut(id, a).err # "Ok" =>
                        /\ CreateOut(id, a).err \in Violations(a)
                        /\ CreateOut(id, a).request = requests[id]
                        /\ CreateOut(id, a).events = <<>>)
    /\ [][\A id \in AllIds :
            (result'.op = "create_request" /\ result'.id = id /\ result'.err # "Ok") =>
                /\ requests' = requests
                /\ emitted' = <<>>]_vars

\* a creation with approval_threshold 0 or 101 was turned away, nothing exists
C12_Witness ==
    /\ Did("create_request", 1) /\ result.err = "InvalidApprovalThreshold"
    /\ ~Live(1)

(***************************************************************************)
(* C13: when fulfill_request's own checks pass and the program it invokes  *)
(* returns an error, or the invocation fails, fulfill_request returns that *)
(* error: the request stays VotingCompleted with every field as it was,    *)
(* the consumer accounts are as they were, no RequestFulfilled is emitted, *)
(* and the same call passes fulfill_request's own checks again.            *)
(***************************************************************************)
\* what the invoked program answers to the callback of a fulfilment
CalleeOut(id, a) ==
    invoke(CallbackIx(requests[id], a.response), consumer, a.host_ok)

\* the error of fulfill_request's own checks on a record
OwnChecks(request, a) ==
    FulfillError(request, a.response, a.callback_program, a.remaining_accounts)

C13_CalleeRejectionFailsFulfill ==
    /\ [](\A id \in AllIds :
            Live(id) =>
                \A a \in FulfillArgsFor(requests[id]) :
                    (OwnChecks(requests[id], a) = "Ok" /\ CalleeOut(id, a).err # "Ok") =>
                        /\ FulfilOut(id, a).err = CalleeOut(id, a).err
                        /\ FulfilOut(id, a).request = requests[id]
                        /\ FulfilOut(id, a).request.status = "VotingCompleted"
                        /\ FulfilOut(id, a).consumer = consumer
                        /\ FulfilOut(id, a).events = <<>>
                        /\ OwnChecks(FulfilOut(id, a).request, a) = "Ok")
    /\ [][\A id \in AllIds :
            (result'.op = "fulfill_request" /\ result'.id = id
                /\ result'.err # "Ok" /\ invoked' # NoIx) =>
                /\ requests' = requests
                /\ requests'[id].status = "VotingCompleted"
                /\ consumer' = consumer
                /\ delivered' = delivered
                /\ emitted' = <<>>]_vars

\* the consumer program was called back on an account that holds no
\* ConsumerState and turned the callback away: the request is still to be
\* fulfilled, and the same fulfilment is taken up to the callback again
C13_Witness ==
    /\ Did("fulfill_request", 1) /\ result.err = "AccountNotInitialized"
    /\ invoked # NoIx
    /\ invoked.program_id = ConsumerProgram
    /\ requests[1].status = "VotingCompleted"
    /\ delivered[1] = 0
    /\ OwnChecks(requests[1], MatchingArgs(requests[1])) = "Ok"

\* in SpecSystem: request 2 named the consumer account of request 1 as its
\* callback account, and the consumer turned the callback away
C13_WitnessIdMismatch ==
    /\ Did("fulfill_request", 2) /\ result.err = "RequestIdMismatch"
    /\ invoked # NoIx
    /\ requests[2].status = "VotingCompleted"
    /\ consumer[ConsumerPDA(1)].initialized
    /\ ~consumer[ConsumerPDA(1)].has_response

\* in SpecSystem: a winning payload over the consumer's limit was turned away
C13_WitnessTooLarge ==
    /\ Did("fulfill_request", 1) /\ result.err = "ResponseTooLarge"
    /\ invoked # NoIx
    /\ requests[1].status = "VotingCompleted"

(***************************************************************************)
(* C14: whenever the consumer account of a request id holds a response,    *)
(* the request exists, the response hashes to its winning_hash, and a      *)
(* fulfill_request of that request has succeeded.  llm_callback is an      *)
(* instruction anyone may send, so the code does not keep this.            *)
(***************************************************************************)
C14_OnlyWinningPayloadDelivered ==
    \A id \in AllIds :
        (consumer[ConsumerPDA(id)].initialized /\ consumer[ConsumerPDA(id)].has_response) =>
            /\ Live(id)
            /\ requests[id].winning_hash
                    = Some(hash(consumer[ConsumerPDA(id)].response[1]))
            /\ delivered[id] >= 1

\* a response is held for a request on which no vote has been cast
C14_ForgedDelivery ==
    /\ Did("llm_callback", 1) /\ result.err = "Ok"
    /\ consumer[ConsumerPDA(1)].has_response
    /\ Live(1)
    /\ requests[1].status = "Pending"
    /\ requests[1].votes = <<>>

(***************************************************************************)
(* C15: on a Pending request with fewer than 32 votes, submit_vote signed  *)
(* by an oracle that is not in votes returns Ok for every response hash.   *)
(* The divisor of the percentage is at least 1, the u8 counters and the    *)
(* u64 product stay in range, and the call changes nothing but the request *)
(* account, emitting VotingCompleted exactly when it closes the voting.    *)
(***************************************************************************)
U8Max == 2^8 - 1

\* the outcome of submit_vote in the current state
VoteOut(id, oracle_key, response_hash) ==
    VoteOutcome(requests[id], oracle_key, response_hash)

\* every number submit_vote computes on these votes fits its Rust type
VoteArithmeticInRange(request) ==
    /\ request.total_votes_cast \in 1..U8Max
    /\ \A i \in 1..Len(count_votes(request.votes)) :
            /\ count_votes(request.votes)[i][2] \in 1..U8Max
            \* so the product is far below 2^64
            /\ count_votes(request.votes)[i][2] * 100 <= U8Max * 100

C15_VoteAlwaysAccepted ==
    /\ [](\A id \in AllIds :
            (Live(id) /\ requests[id].status = "Pending"
                /\ Len(requests[id].votes) < 32) =>
                \A oracle_key \in CapOracles, response_hash \in VoteHashes :
                    ~HasVoted(requests[id], oracle_key) =>
                        LET out == VoteOut(id, oracle_key, response_hash)
                        IN  /\ out.err = "Ok"
                            /\ VoteArithmeticInRange(out.request)
                            /\ out.request.votes
                                    = Append(requests[id].votes,
                                             OracleVote(oracle_key, response_hash))
                            /\ out.request.status \in {"Pending", "VotingCompleted"}
                            /\ out.events
                                    = IF out.request.status = "VotingCompleted"
                                      THEN <<VotingCompleted(out.request)>> ELSE <<>>)
    /\ [][\A id \in AllIds :
            (result'.op = "submit_vote" /\ result'.id = id /\ result'.err = "Ok") =>
                /\ consumer' = consumer
                /\ delivered' = delivered
                /\ invoked' = NoIx
                /\ \A other \in AllIds \ {id} : requests'[other] = requests[other]
                /\ Len(emitted') <= 1
                /\ (emitted' # <<>>) = (requests'[id].status = "VotingCompleted")]_vars

\* the last oracle under the cap was accepted on a request still Pending
C15_Witness ==
    /\ Did("submit_vote", 1) /\ result.err = "Ok"
    /\ Len(requests[1].votes) = 32
    /\ requests[1].status = "Pending"
    /\ requests[1].votes[32].oracle = 32

(***************************************************************************)
(* C16: total_votes_cast is the length of votes and at most 32 in every    *)
(* state; a step never lowers it, an accepted submit_vote raises it by     *)
(* one, and a rejected submit_vote and fulfill_request leave it as it is.  *)
(***************************************************************************)
C16_TotalVotesCast ==
    /\ [](\A id \in AllIds :
            Live(id) =>
                /\ requests[id].total_votes_cast = Len(requests[id].votes)
                /\ requests[id].total_votes_cast <= 32)
    /\ [][\A id \in AllIds :
            Live(id) =>
                /\ Live(id)'
                /\ requests'[id].total_votes_cast >= requests[id].total_votes_cast
                /\ (result'.op = "submit_vote" /\ result'.id = id /\ result'.err = "Ok") =>
                        requests'[id].total_votes_cast
                            = requests[id].total_votes_cast + 1
                /\ ~(result'.op = "submit_vote" /\ result'.id = id /\ result'.err = "Ok") =>
                        requests'[id].total_votes_cast
                            = requests[id].total_votes_cast]_vars

\* a vote was turned away at 32 votes, and the counter is still 32
C16_Witness ==
    /\ Did("submit_vote", 1) /\ result.err = "TooManyVotes"
    /\ requests[1].total_votes_cast = 32
    /\ Len(requests[1].votes) = 32

(***************************************************************************)
(* C17: create_request for a request id whose account exists fails,        *)
(* whatever the status of the request is and however valid the arguments   *)
(* are, and the account keeps its votes, status, winning_hash, callback    *)
(* accounts and thresholds.                                                *)
(***************************************************************************)
\* argument tuples that pass every bound of create_request
ValidCreateArgs ==
    [caller_program : Programs, provider : {64}, model_id : {64},
     messages : {50}, remaining_accounts : AccountLists,
     min_votes : {1, 3}, approval_threshold : {60, 100}]

C17_CreateOnExistingFails ==
    /\ [](\A id \in AllIds :
            Live(id) =>
                \A a \in ValidCreateArgs :
                    /\ CreateOut(id, a).err = "AccountAlreadyInUse"
                    /\ CreateOut(id, a).request = requests[id]
                    /\ CreateOut(id, a).events = <<>>)
    /\ [][\A id \in AllIds :
            (Live(id) /\ result'.op = "create_request" /\ result'.id = id) =>
                /\ result'.err = "AccountAlreadyInUse"
                /\ requests' = requests
                /\ emitted' = <<>>]_vars

\* a creation on the id of a Fulfilled request was turned away
C17_Witness ==
    /\ Did("create_request", 1) /\ result.err = "AccountAlreadyInUse"
    /\ requests[1].status = "Fulfilled"
    /\ requests[1].winning_hash # None
    /\ Len(requests[1].votes) >= 1

(***************************************************************************)
(* C18, as first stated: on a VotingCompleted request, fulfill_request     *)
(* with a payload that hashes to winning_hash and the recorded callback    *)
(* program and accounts returns Ok for every signer, an oracle in votes or *)
(* an identity that is in no list of the request.                          *)
(***************************************************************************)
\* the arguments name what the request recorded and a payload of its hash
NamesTheRecord(request, a) ==
    /\ request.status = "VotingCompleted"
    /\ Some(hash(a.response)) = request.winning_hash
    /\ a.callback_program = request.caller_program
    /\ KeysOf(a.remaining_accounts) = request.callback_accounts

C18_AlwaysSucceeds ==
    \A id \in AllIds :
        Live(id) =>
            \A a \in FulfillArgsFor(requests[id]) :
                NamesTheRecord(requests[id], a) =>
                    \A signer \in Signers :
                        FulfilOut(id, [a EXCEPT !.oracle = signer]).err = "Ok"

(***************************************************************************)
(* C18, as amended: on such a request and with such arguments, every       *)
(* signer gets past the checks of fulfill_request to the callback; the     *)
(* call returns Ok and marks the request Fulfilled exactly when the        *)
(* invoked program accepts the callback, and returns the error of the      *)
(* invocation and leaves the request VotingCompleted when it does not.     *)
(* With any arguments, what fulfill_request returns, writes, invokes and   *)
(* emits is decided by the request, the consumer accounts and the          *)
(* arguments other than the signer.                                        *)
(***************************************************************************)
\* what a fulfilment comes to, read off the record, the arguments other than
\* the signer and the answer of the invoked program
Expected(id, a) ==
    IF OwnChecks(requests[id], a) # "Ok"
    THEN [err |-> OwnChecks(requests[id], a), request |-> requests[id],
          consumer |-> consumer, ix |-> NoIx, events |-> <<>>]
    ELSE IF CalleeOut(id, a).err # "Ok"
    THEN [err |-> CalleeOut(id, a).err, request |-> requests[id],
          consumer |-> consumer, ix |-> CallbackIx(requests[id], a.response),
          events |-> <<>>]
    ELSE [err |-> "Ok",
          request |-> [requests[id] EXCEPT !.status = "Fulfilled"],
          consumer |-> CalleeOut(id, a).consumer,
          ix |-> CallbackIx(requests[id], a.response),
          events |-> CalleeOut(id, a).events
                        \o <<RequestFulfilled(requests[id], a.response)>>]

C18_AnyoneMayFulfill ==
    \A id \in AllIds :
        Live(id) =>
            \A a \in FulfillArgsFor(requests[id]) :
                \A signer \in Signers :
                    LET out == FulfilOut(id, [a EXCEPT !.oracle = signer])
                    IN  /\ out = Expected(id, a)
                        /\ NamesTheRecord(requests[id], a) =>
                            /\ OwnChecks(requests[id], a) = "Ok"
                            /\ out.ix = CallbackIx(requests[id], a.response)
                            /\ out.err = CalleeOut(id, a).err
                            /\ (out.err = "Ok") = (out.request.status = "Fulfilled")
                            /\ out.err # "Ok" => out.request = requests[id]

\* a request was fulfilled that no identity able to sign had voted on
C18_Witness ==
    /\ Did("fulfill_request", 1) /\ result.err = "Ok"
    /\ requests[1].status = "Fulfilled"
    /\ \A signer \in Signers : ~HasVoted(requests[1], signer)

\* a fulfilment that named what the request recorded was turned away by the
\* program it called back
C18_WitnessRejected ==
    /\ Did("fulfill_request", 1) /\ result.err # "Ok"
    /\ invoked # NoIx
    /\ requests[1].status = "VotingCompleted"
    /\ \A signer \in Signers : ~HasVoted(requests[1], signer)

(***************************************************************************)
(* C19: submit_vote reports its preconditions in the order it tests them.  *)
(* On a request that is not Pending it returns VotingClosed; on a Pending  *)
(* request that holds 32 votes it returns TooManyVotes, for an oracle that *)
(* is in votes as for a new one; on a Pending request with fewer than 32   *)
(* votes it returns OracleAlreadyVoted to an oracle that is in votes.      *)
(***************************************************************************)
C19_FailureKindsInOrder ==
    \A id \in AllIds :
        Live(id) =>
            \A oracle_key \in CapOracles, response_hash \in VoteHashes :
                LET request == requests[id]
                    err == VoteOut(id, oracle_key, response_hash).err
                IN  /\ request.status # "Pending" => err = "VotingClosed"
                    /\ (request.status = "Pending" /\ Len(request.votes) = 32) =>
                            err = "TooManyVotes"
                    /\ (request.status = "Pending" /\ Len(request.votes) < 32
                            /\ HasVoted(request, oracle_key)) =>
                            err = "OracleAlreadyVoted"

(***************************************************************************)
(* C19 as the specification words it: on a Pending request every oracle    *)
(* that is in votes gets OracleAlreadyVoted, and TooManyVotes is for a new *)
(* oracle on a request that holds 32 votes.                                *)
(***************************************************************************)
C19_EachPreconditionOwnKind ==
    \A id \in AllIds :
        Live(id) =>
            \A oracle_key \in CapOracles, response_hash \in VoteHashes :
                LET request == requests[id]
                    err == VoteOut(id, oracle_key, response_hash).err
                IN  /\ request.status # "Pending" => err = "VotingClosed"
                    /\ (request.status = "Pending" /\ HasVoted(request, oracle_key)) =>
                            err = "OracleAlreadyVoted"
                    /\ (request.status = "Pending" /\ Len(request.votes) = 32
                            /\ ~HasVoted(request, oracle_key)) =>
                            err = "TooManyVotes"

\* a vote was turned away as one too many on a full Pending request, where
\* oracle 1 has voted and would be told the same
C19_Witness ==
    /\ Did("submit_vote", 1) /\ result.err = "TooManyVotes"
    /\ requests[1].status = "Pending"
    /\ Len(requests[1].votes) = 32
    /\ HasVoted(requests[1], 1)
    /\ \A response_hash \in VoteHashes :
            VoteOut(1, 1, response_hash).err = "TooManyVotes"

(***************************************************************************)
(* C20: once a request exists, no step changes its id, caller_program,     *)
(* callback_accounts, callback_writable, min_votes or approval_threshold.  *)
(* An accepted submit_vote adds one entry at the end of votes and leaves   *)
(* the entries before it as they were; it may set status and winning_hash. *)
(* A successful fulfill_request changes status and nothing else.  Every    *)
(* other step leaves the request as it is, and votes changes on a Pending  *)
(* request only.                                                           *)
(***************************************************************************)
\* the fields create_request writes and nothing writes again
WriteOnce(request) ==
    <<request.id, request.caller_program, request.provider, request.model_id,
      request.callback_accounts, request.callback_writable,
      request.min_votes, request.approval_threshold>>

C20_Frame ==
    [][\A id \in AllIds :
        Live(id) =>
            /\ Live(id)'
            /\ WriteOnce(requests'[id]) = WriteOnce(requests[id])
            /\ requests[id].status # "Pending" =>
                    requests'[id].votes = requests[id].votes
            /\ IF result'.op = "submit_vote" /\ result'.id = id /\ result'.err = "Ok"
               THEN /\ requests[id].status = "Pending"
                    /\ Len(requests'[id].votes) = Len(requests[id].votes) + 1
                    /\ SubSeq(requests'[id].votes, 1, Len(requests[id].votes))
                            = requests[id].votes
                    /\ requests'[id]
                            = [requests[id] EXCEPT
                                    !.votes = requests'[id].votes,
                                    !.total_votes_cast = requests'[id].total_votes_cast,
                                    !.status = requests'[id].status,
                                    !.winning_hash = requests'[id].winning_hash]
               ELSE IF result'.op = "fulfill_request" /\ result'.id = id
                        /\ result'.err = "Ok"
               THEN requests'[id] = [requests[id] EXCEPT !.status = "Fulfilled"]
               ELSE requests'[id] = requests[id]]_vars

\* a request with a writable and a read-only callback account was voted on
\* three times and fulfilled
C20_Witness ==
    /\ Did("fulfill_request", 1) /\ result.err = "Ok"
    /\ requests[1].status = "Fulfilled"
    /\ Len(requests[1].votes) = 3
    /\ Len(requests[1].callback_accounts) = 2
    /\ requests[1].callback_writable[1] # requests[1].callback_writable[2]

(***************************************************************************)
(* C21: when a submit_vote takes a request from Pending to                 *)
(* VotingCompleted, winning_hash is the hash of that vote, the last entry  *)
(* of votes, and it holds strictly more votes than every other hash in     *)
(* votes.  No tie of leading hashes is in votes at a resolution, so the    *)
(* earliest and the latest leader are the same hash.                       *)
(***************************************************************************)
\* h holds more votes than every other hash of the list
StrictLeader(votes, h) ==
    \A g \in HashesOf(votes) \ {h} : Tally(votes, h) > Tally(votes, g)

C21_NoTieDecides ==
    /\ [](\A id \in AllIds :
            (Live(id) /\ requests[id].status # "Pending") =>
                /\ requests[id].winning_hash
                        = Some(requests[id].votes[Len(requests[id].votes)].response_hash)
                /\ StrictLeader(requests[id].votes, requests[id].winning_hash[1])
                /\ TiedLeaders(requests[id].votes) = {requests[id].winning_hash[1]}
                /\ EarliestLeader(requests[id].votes) = LatestLeader(requests[id].votes))
    /\ [][\A id \in AllIds :
            (Live(id) /\ requests[id].status = "Pending"
                /\ requests'[id].status = "VotingCompleted") =>
                /\ result'.op = "submit_vote" /\ result'.id = id /\ result'.err = "Ok"
                /\ requests'[id].votes
                        = Append(requests[id].votes,
                                 OracleVote(requests'[id].votes[Len(requests'[id].votes)].oracle,
                                            requests'[id].winning_hash[1]))]_vars

\* under a threshold of 50 two hashes were level and the request still
\* Pending; the next vote resolved it for its own hash
C21_Witness ==
    /\ Did("submit_vote", 1) /\ result.err = "Ok"
    /\ requests[1].status = "VotingCompleted"
    /\ requests[1].approval_threshold = 50
    /\ Len(requests[1].votes) >= 3
    /\ Cardinality(TiedLeaders(SubSeq(requests[1].votes, 1,
                                      Len(requests[1].votes) - 1))) >= 2
    /\ Cardinality(HashesOf(requests[1].votes)) >= 2

(***************************************************************************)
(* C22: create_request takes every min_votes from 1 to 255, the whole of   *)
(* u8 but 0.  A request whose min_votes is above 32 is Pending in every    *)
(* state.  A request that is Pending with 32 votes is never changed again: *)
(* every submit_vote on it returns TooManyVotes and every fulfill_request  *)
(* returns VotingNotCompleted.                                             *)
(***************************************************************************)
\* min_votes at the ends of what create_request takes and on both sides of
\* the cap
MinVotesProbes == {1, MAX_ORACLES, MAX_ORACLES + 1, U8Max}

Stuck(request) ==
    request.initialized /\ request.status = "Pending" /\ Len(request.votes) = 32

C22_Unresolvable ==
    /\ [](\A id \in AllIds :
            /\ ~Live(id) =>
                    \A min_votes \in MinVotesProbes :
                        CreateOutcome(requests[id], id, OtherProgram, 64, 64, 50,
                                      <<>>, min_votes, 100).err = "Ok"
            /\ (Live(id) /\ requests[id].min_votes > 32) =>
                    requests[id].status = "Pending"
            /\ Stuck(requests[id]) =>
                    /\ \A oracle_key \in CapOracles, response_hash \in VoteHashes :
                            VoteOut(id, oracle_key, response_hash).err = "TooManyVotes"
                    /\ \A a \in FulfillArgs :
                            FulfilOut(id, a).err = "VotingNotCompleted")
    /\ [][\A id \in AllIds :
            Stuck(requests[id]) => requests'[id] = requests[id]]_vars

\* 32 oracles reported one hash to a request that asks for 33 votes: it is
\* Pending, and a further vote was turned away
C22_Witness ==
    /\ Did("submit_vote", 1) /\ result.err = "TooManyVotes"
    /\ Stuck(requests[1])
    /\ requests[1].min_votes = 33
    /\ Cardinality(HashesOf(requests[1].votes)) = 1

\* a request that asks for 16 votes is as stuck: its 32 votes are split
C22_WitnessSplit ==
    /\ Did("fulfill_request", 1) /\ result.err = "VotingNotCompleted"
    /\ Stuck(requests[1])
    /\ requests[1].min_votes = 16

====
